---- MODULE Spec2Model ----
(***************************************************************************)
(* Model of the aws-session-management backend: the security headers       *)
(* middleware, the health and session handlers, the DynamoDB and SQS       *)
(* wrappers and the middleware stack they run in.                          *)
(*                                                                         *)
(* Strings are sequences of pieces (a piece is an atomic run of            *)
(* characters); concatenation is \o, so str.join, f-strings and            *)
(* str.startswith are computed rather than assumed.                        *)
(***************************************************************************)
EXTENDS Integers, Sequences, FiniteSets, TLC

VARIABLES
    pc,                   \* "idle", or "responded" once a request is answered
    started,              \* lifespan has run: app.state.settings is set
    settings,             \* app.state.settings (the fields dispatch reads)
    script_nonce,         \* SecurityHeadersMiddleware.script_nonce
    style_nonce,          \* SecurityHeadersMiddleware.style_nonce
    report_only,          \* SecurityHeadersMiddleware.report_only
    nonce,                \* SecurityHeadersMiddleware.nonce (None or a string)
    default_csp_options,  \* SecurityHeadersMiddleware.default_csp_options
    swagger_csp_options,  \* SecurityHeadersMiddleware.swagger_csp_options
    table,                \* the UserSessions table: user_id -> last_action
    sent_messages,        \* messages delivered to the SQS queue
    request,              \* the request handled last
    calls,                \* the remote (SDK) calls made for that request
    downstream,           \* what call_next gave dispatch for that request
    resp,                 \* the response the client received for it
    sent_fixed,           \* history: fixed header maps sent so far
    sent_nonces,          \* history: nonce values sent in CSP headers so far
    table_before,         \* history: the table when that request arrived
    wrapper_call,         \* the last direct call of a store or queue wrapper
    inflight,             \* per worker: the session request it is handling
    last_applied          \* history: per user, the action applied last

vars == <<pc, started, settings, script_nonce, style_nonce, report_only, nonce,
          default_csp_options, swagger_csp_options, table, sent_messages,
          request, calls, downstream, resp, sent_fixed, sent_nonces,
          table_before, wrapper_call, inflight, last_applied>>

(***************************************************************************)
(* Bounds of the model.                                                    *)
(***************************************************************************)
MaxDirectives == 2    \* directives in a caller-supplied csp_options map
MaxTokens == 1        \* source tokens per directive of such a map
MaxSent == 2          \* messages the queue holds before sending stops
MaxInflight == 2      \* session requests handled at the same time

(***************************************************************************)
(* Strings.                                                                *)
(***************************************************************************)
None == <<"<None>">>

S(piece) == <<piece>>

\* str.startswith(prefix), on a sequence of characters
StartsWith(s, prefix) ==
    /\ Len(s) >= Len(prefix)
    /\ SubSeq(s, 1, Len(prefix)) = prefix

RECURSIVE Join(_, _)
\* sep.join(strs): strs is a sequence of strings
Join(strs, sep) ==
    IF strs = <<>> THEN <<>>
    ELSE IF Len(strs) = 1 THEN strs[1]
    ELSE strs[1] \o sep \o Join(Tail(strs), sep)

RECURSIVE SplitAcc(_, _, _)
SplitAcc(s, sep, cur) ==
    IF s = <<>> THEN <<cur>>
    ELSE IF Head(s) = sep THEN <<cur>> \o SplitAcc(Tail(s), sep, <<>>)
    ELSE SplitAcc(Tail(s), sep, Append(cur, Head(s)))

\* str.split(sep) for a separator that is one piece
Split(s, sep) == SplitAcc(s, sep, <<>>)

Digit == <<"0", "1", "2", "3", "4", "5", "6", "7", "8", "9">>

RECURSIVE IntToStr(_)
\* str(n) of a non-negative int, as f"{n}" formats it
IntToStr(n) ==
    IF n < 10 THEN <<Digit[n + 1]>>
    ELSE IntToStr(n \div 10) \o <<Digit[(n % 10) + 1]>>

(***************************************************************************)
(* dict: a sequence of <<key, value>> pairs in insertion order.            *)
(***************************************************************************)
Keys(d) == {d[i][1] : i \in 1..Len(d)}

\* d[k] = v: an existing key keeps its position, a new key goes last
DictSet(d, k, v) ==
    IF k \in Keys(d)
    THEN [i \in 1..Len(d) |-> IF d[i][1] = k THEN <<k, v>> ELSE d[i]]
    ELSE Append(d, <<k, v>>)

(***************************************************************************)
(* SecurityHeadersMiddleware: configuration.                               *)
(***************************************************************************)
SwaggerBundle ==
    <<"https://cdn.jsdelivr.net/npm/swagger-ui-dist@5/swagger-ui", "-bundle.js">>

DefaultCspOptions ==
    << <<"default-src", <<S("'self'")>>>>,
       <<"base-uri", <<S("'self'")>>>>,
       <<"block-all-mixed-content", <<>>>>,
       <<"font-src", <<S("'self'"), S("https:"), S("data:")>>>>,
       <<"frame-ancestors", <<S("'self'")>>>>,
       <<"img-src", <<S("'self'"), S("data:")>>>>,
       <<"object-src", <<S("'none'")>>>>,
       <<"script-src", <<S("'self'")>>>>,
       <<"script-src-attr", <<S("'none'")>>>>,
       <<"style-src", <<S("'self'"), S("https:"), S("'unsafe-inline'")>>>>,
       <<"upgrade-insecure-requests", <<>>>>,
       <<"require-trusted-types-for", <<S("'script'")>>>> >>

SwaggerCspOptions ==
    << <<"default-src", <<S("'self'")>>>>,
       <<"script-src", <<S("'self'"), SwaggerBundle,
                         S("'sha256-swagger_sha_key'")>>>>,
       <<"style-src", <<S("'self'"),
           S("https://cdn.jsdelivr.net/npm/swagger-ui-dist@5/swagger-ui.css")>>>>,
       <<"img-src", <<S("'self'"), S("data:"), S("https:")>>>>,
       <<"font-src", <<S("'self'"), S("https:"), S("data:")>>>>,
       <<"connect-src", <<S("'self'"), S("https:")>>>>,
       <<"frame-ancestors", <<S("'none'")>>>> >>

\* token_urlsafe(90): two of the values it can return
NonceValues == {"nonceA", "nonceB"}

\* generate_nonce() if (script_nonce or style_nonce) else None
InitNonce(sn, st, generated) ==
    IF sn \/ st THEN S(generated) ELSE None

\* csp_options or {...}: None and the empty dict select the default map
InitDefaultCspOptions(csp_options) ==
    IF csp_options = None \/ csp_options = <<>>
    THEN DefaultCspOptions
    ELSE csp_options

(***************************************************************************)
(* SecurityHeadersMiddleware._construct_csp_header                         *)
(***************************************************************************)
NonceToken == S("'nonce-") \o nonce \o S("'")

\* variant: each flag appends its token without looking at the directive
SourcesOfEitherFlag(directive, sources) ==
    LET s1 == IF script_nonce THEN Append(sources, NonceToken) ELSE sources
        s2 == IF style_nonce THEN Append(s1, NonceToken) ELSE s1
    IN  IF directive \in {"script-src", "style-src"} THEN s2 ELSE sources

\* the sources list after the optional appends of lines 102-107
SourcesOf(directive, sources) ==
    LET s1 == IF directive = "script-src" /\ script_nonce
              THEN Append(sources, NonceToken) ELSE sources
        s2 == IF directive = "style-src" /\ style_nonce
              THEN Append(s1, NonceToken) ELSE s1
    IN  IF directive \in {"script-src", "style-src"} THEN s2 ELSE sources

\* variant: without the copy of line 103 the appends land on the list
\* the map holds
StoredSourcesShared(directive, sources) == SourcesOf(directive, sources)

\* the list the map holds for a directive once its entry is rendered:
\* line 103 rebinds sources to a copy, which takes the appends
StoredSources(directive, sources) == sources

\* the lists a map holds after _construct_csp_header has gone over it
MapAfterRender(csp_options) ==
    [i \in 1..Len(csp_options) |->
        <<csp_options[i][1],
          StoredSources(csp_options[i][1], csp_options[i][2])>>]

\* f"{directive} {' '.join(sources)}"
DirectiveEntry(directive, sources) ==
    S(directive) \o S(" ") \o Join(SourcesOf(directive, sources), S(" "))

HeaderName ==
    IF ~report_only THEN "Content-Security-Policy"
    ELSE "Content-Security-Policy-Report-Only"

HasSources(item) == item[2] # <<>>

\* variant: a directive without sources is left out of the header
_construct_csp_header_skipping(csp_options) ==
    LET kept == SelectSeq(csp_options, HasSources)
        csp_directives ==
            [i \in 1..Len(kept) |-> DirectiveEntry(kept[i][1], kept[i][2])]
    IN  <<HeaderName, Join(csp_directives, S("; "))>>

_construct_csp_header(csp_options) ==
    LET csp_directives ==
            [i \in 1..Len(csp_options) |->
                DirectiveEntry(csp_options[i][1], csp_options[i][2])]
    IN  <<HeaderName, Join(csp_directives, S("; "))>>

(***************************************************************************)
(* Responses, exceptions and the outcome of a call.                        *)
(***************************************************************************)
NoHeaders == <<>>

\* response.headers[k] = v
HeaderSet(h, k, v) == [n \in (DOMAIN h) \cup {k} |-> IF n = k THEN v ELSE h[n]]

Response(status_code, body) ==
    [status_code |-> status_code, body |-> body, headers |-> NoHeaders]

Returned(value) == [raised |-> FALSE, value |-> value]

Raised(exc) == [raised |-> TRUE, exc |-> exc]

\* fastapi.HTTPException(status_code, detail)
HTTPException(status_code, detail) ==
    [type |-> "HTTPException", http |-> TRUE,
     status_code |-> status_code, detail |-> detail]

DatabaseConnectionError(detail) ==
    [type |-> "DatabaseConnectionError", http |-> TRUE,
     status_code |-> 503, detail |-> detail]

DatabaseOperationError(detail) ==
    [type |-> "DatabaseOperationError", http |-> TRUE,
     status_code |-> 500, detail |-> detail]

SQSConnectionError(detail) ==
    [type |-> "SQSConnectionError", http |-> FALSE,
     status_code |-> 0, detail |-> detail]

\* what a call of the SDK can do: succeed, fail with a service error
\* response (botocore ClientError), or fail before any response
\* (a botocore BotoCoreError such as EndpointConnectionError)
SdkOutcomes == {"ok", "ClientError", "BotoCoreError"}

\* a remote call made while handling a request, with its outcome
Call(name, outcome) == [call |-> name, outcome |-> outcome]

SdkError(outcome) ==
    [type |-> outcome, http |-> FALSE, status_code |-> 0,
     detail |-> S("sdk: ") \o S(outcome)]

\* str(e)
StrOfExc(e) ==
    IF e.http THEN IntToStr(e.status_code) \o S(": ") \o e.detail
    ELSE e.detail

(***************************************************************************)
(* app/db/dynamodb.py                                                      *)
(***************************************************************************)
\* variant: a failed load is reported as an operation error
get_table_as_operation_error(load) ==
    IF load = "ok" THEN Returned("UserSessions")
    ELSE IF load = "ClientError"
    THEN Raised(DatabaseOperationError(
                    S("Failed to access the DynamoDB table.")))
    ELSE Raised(SdkError(load))

\* load: the outcome of Table.load()
get_table(load) ==
    IF load = "ok" THEN Returned("UserSessions")
    ELSE IF load = "ClientError"
    THEN Raised(DatabaseConnectionError(
                    S("Failed to access the DynamoDB table.")))
    ELSE Raised(SdkError(load))

\* count: the outcome of reading Table.item_count
check_db_health(count) ==
    IF count = "ok" THEN Returned(TRUE)
    ELSE IF count = "ClientError"
    THEN Raised(DatabaseOperationError(
                    S("Failed to check DynamoDB table health.")))
    ELSE Raised(SdkError(count))

(***************************************************************************)
(* app/services/sqs.py                                                     *)
(***************************************************************************)
\* json.dumps of a flat dict of strings, a sequence of <<key, value>>
JsonDumps(d) ==
    LET member(i) == S("\"") \o S(d[i][1]) \o S("\": \"")
                         \o S(d[i][2]) \o S("\"")
    IN  S("{") \o Join([i \in 1..Len(d) |-> member(i)], S(", ")) \o S("}")

\* variant: the check sends a test message, as its docstring says
get_queue_url_sending_test(messages, queue) ==
    IF queue = "ok"
    THEN Append(messages, JsonDumps(<<<<"type", "test">>>>))
    ELSE messages

\* the messages in the queue after sqs_client.get_queue_url, a read
get_queue_url(messages, queue) == messages

\* send: the outcome of sqs_client.send_message; queue_url: the configured
\* SQS_QUEUE_URL.  A ClientError is logged and raised again as it is.
send_sqs_message(messages, queue_url, message_body, send) ==
    IF queue_url = None
    THEN [out |-> Returned(None), messages |-> messages]
    ELSE IF send = "ok"
    THEN [out |-> Returned(None),
          messages |-> Append(messages, JsonDumps(message_body))]
    ELSE [out |-> Raised(SdkError(send)), messages |-> messages]

\* variant: a service error is logged and the queue reported healthy
check_sqs_health_swallowing(queue) ==
    IF queue \in {"ok", "ClientError"} THEN Returned(TRUE)
    ELSE Raised(SdkError(queue))

\* queue: the outcome of sqs_client.get_queue_url
check_sqs_health(queue) ==
    IF queue = "ok" THEN Returned(TRUE)
    ELSE IF queue = "ClientError"
    THEN Raised(SQSConnectionError(S("Failed to check SQS queue health.")))
    ELSE Raised(SdkError(queue))

(***************************************************************************)
(* app/api/api_v1/router/health.py                                         *)
(* The result carries the handler's outcome and the remote calls made.     *)
(***************************************************************************)
HealthBody(dynamodb, sqs) ==
    [kind |-> "health", dynamodb |-> dynamodb, sqs |-> sqs]

\* variant: a failed store check is kept aside and the queue is still
\* checked before the failure is raised
check_health_continuing(load, count, queue) ==
    LET t == get_table(load)
        db == check_db_health(count)
        q == check_sqs_health(queue)
        c1 == <<Call("Table.load", load)>>
        c2 == Append(c1, Call("Table.item_count", count))
        c3 == Append(c2, Call("get_queue_url", queue))
        sent == get_queue_url(sent_messages, queue)
    IN  IF t.raised THEN [out |-> t, calls |-> c1, sent |-> sent_messages]
        ELSE IF db.raised THEN [out |-> db, calls |-> c3, sent |-> sent]
        ELSE IF q.raised THEN [out |-> q, calls |-> c3, sent |-> sent]
        ELSE [out |-> Returned(Response(200, HealthBody("healthy", "healthy"))),
              calls |-> c3, sent |-> sent]

\* the result also carries the queue's messages after the request
check_health(load, count, queue) ==
    LET t == get_table(load)
        db == check_db_health(count)
        q == check_sqs_health(queue)
        dynamodb == IF ~db.value THEN "unhealthy" ELSE "healthy"
        code1 == IF ~db.value THEN 503 ELSE 200
        sqs == IF ~q.value THEN "unhealthy" ELSE "healthy"
        code2 == IF ~q.value THEN 503 ELSE code1
        c1 == <<Call("Table.load", load)>>
        c2 == Append(c1, Call("Table.item_count", count))
        c3 == Append(c2, Call("get_queue_url", queue))
        sent == get_queue_url(sent_messages, queue)
    IN  IF t.raised THEN [out |-> t, calls |-> c1, sent |-> sent_messages]
        ELSE IF db.raised
        THEN [out |-> db, calls |-> c2, sent |-> sent_messages]
        ELSE IF q.raised THEN [out |-> q, calls |-> c3, sent |-> sent]
        ELSE [out |-> Returned(Response(code2, HealthBody(dynamodb, sqs))),
              calls |-> c3, sent |-> sent]

(***************************************************************************)
(* app/services/session.py and app/api/api_v1/router/session.py            *)
(***************************************************************************)
NoRecord == "<no record>"

\* variant: ReturnValues="UPDATED_OLD", the attributes before the update
update_item_returning_old(tbl, user_id, action) ==
    LET new == [tbl EXCEPT ![user_id] = action]
    IN  [table |-> new, Attributes |-> [last_action |-> tbl[user_id]]]

\* variant: SET last_action = if_not_exists(last_action, :action), which
\* keeps the action a record already has
update_item_if_not_exists(tbl, user_id, action) ==
    LET new == IF tbl[user_id] = NoRecord
               THEN [tbl EXCEPT ![user_id] = action] ELSE tbl
    IN  [table |-> new, Attributes |-> [last_action |-> new[user_id]]]

\* Table.update_item(Key={user_id}, SET last_action = :action,
\* ReturnValues="UPDATED_NEW"): the new table and the returned Attributes
update_item(tbl, user_id, action) ==
    LET new == [tbl EXCEPT ![user_id] = action]
    IN  [table |-> new, Attributes |-> [last_action |-> new[user_id]]]

SessionResponse(user_id, last_action) ==
    [kind |-> "session", user_id |-> user_id, last_action |-> last_action]

\* variant: the returned attribute is read under a name the store never
\* returns, so the lookup fails once the update has been applied
process_session_misreading(tbl, body, load, upd) ==
    LET t == get_table(load)
        response == update_item(tbl, body.user_id, body.action)
        c1 == <<Call("Table.load", load)>>
        c2 == Append(c1, Call("update_item", upd))
    IN  IF t.raised THEN [out |-> t, table |-> tbl, calls |-> c1]
        ELSE IF upd = "ok"
        THEN [out |-> Raised([type |-> "KeyError", http |-> FALSE,
                              status_code |-> 0,
                              detail |-> S("'last_actions'")]),
              table |-> response.table, calls |-> c2]
        ELSE IF upd = "ClientError"
        THEN [out |-> Raised(DatabaseOperationError(
                          S("Failed to update session in DynamoDB."))),
              table |-> tbl, calls |-> c2]
        ELSE [out |-> Raised(SdkError(upd)), table |-> tbl, calls |-> c2]

\* body: the validated SessionRequest; upd: the outcome of update_item
process_session(tbl, body, load, upd) ==
    LET t == get_table(load)
        response == update_item(tbl, body.user_id, body.action)
        updated_action == response.Attributes.last_action
        c1 == <<Call("Table.load", load)>>
        c2 == Append(c1, Call("update_item", upd))
    IN  IF t.raised THEN [out |-> t, table |-> tbl, calls |-> c1]
        ELSE IF upd = "ok"
        THEN [out |-> Returned(SessionResponse(body.user_id, updated_action)),
              table |-> response.table, calls |-> c2]
        ELSE IF upd = "ClientError"
        THEN [out |-> Raised(DatabaseOperationError(
                          S("Failed to update session in DynamoDB."))),
              table |-> tbl, calls |-> c2]
        ELSE [out |-> Raised(SdkError(upd)), table |-> tbl, calls |-> c2]

\* the try/except of handle_session; a returned model is sent with the
\* route's status_code, 201
handle_session(tbl, body, load, upd) ==
    LET p == process_session(tbl, body, load, upd)
        e == p.out.exc
        out ==
            IF ~p.out.raised THEN Returned(Response(201, p.out.value))
            ELSE IF e.type = "DatabaseConnectionError"
            THEN Raised(HTTPException(e.status_code, e.detail))
            ELSE IF e.type = "DatabaseOperationError"
            THEN Raised(HTTPException(e.status_code, e.detail))
            ELSE Raised(HTTPException(500,
                     S("An unexpected error occurred: ") \o StrOfExc(e)))
    IN  [out |-> out, table |-> p.table, calls |-> p.calls]

(***************************************************************************)
(* SecurityHeadersMiddleware._add_security_headers and dispatch            *)
(***************************************************************************)
\* the headers of lines 134-159, in assignment order
FixedHeaders(max_age, ct_max_age) ==
    << <<"Strict-Transport-Security",
         S("max-age=") \o IntToStr(max_age)
             \o S("; includeSubDomains; preload")>>,
       <<"Cross-Origin-Embedder-Policy", S("unsafe-none")>>,
       <<"Cross-Origin-Opener-Policy", S("same-origin")>>,
       <<"Cross-Origin-Resource-Policy", S("cross-origin")>>,
       <<"Referrer-Policy", S("strict-origin-when-cross-origin")>>,
       <<"Permissions-Policy",
         S("geolocation=(self), ") \o S("microphone=(), ")
             \o S("camera=(), ") \o S("fullscreen=(self), ")
             \o S("accelerometer=(), ") \o S("gyroscope=(), ")
             \o S("magnetometer=(), ") \o S("payment=(), ") \o S("usb=()")>>,
       <<"Cache-Control", S("no-cache")>>,
       <<"X-Frame-Options", S("DENY")>>,
       <<"X-Content-Type-Options", S("nosniff")>>,
       <<"X-XSS-Protection", S("1; mode=block")>>,
       <<"X-DNS-Prefetch-Control", S("off")>>,
       <<"X-Download-Options", S("noopen")>>,
       <<"X-Permitted-Cross-Domain-Policies", S("none")>>,
       <<"Expect-CT",
         S("max-age=") \o IntToStr(ct_max_age) \o S(", enforce")>> >>

RECURSIVE SetAll(_, _)
\* the assignments response.headers[k] = v, one after the other
SetAll(h, pairs) ==
    IF pairs = <<>> THEN h
    ELSE SetAll(HeaderSet(h, pairs[1][1], pairs[1][2]), Tail(pairs))

\* variant: the header is set whether or not it is there already
SetAllowOriginAlways(h) == HeaderSet(h, "Access-Control-Allow-Origin", S("*"))

\* lines 132-133
SetAllowOrigin(h) ==
    IF "Access-Control-Allow-Origin" \notin DOMAIN h
    THEN HeaderSet(h, "Access-Control-Allow-Origin", S("*"))
    ELSE h

_add_security_headers(response, max_age, csp_options, ct_max_age) ==
    LET h1 == SetAllowOrigin(response.headers)
        h2 == SetAll(h1, FixedHeaders(max_age, ct_max_age))
        csp == _construct_csp_header(csp_options)
    IN  [response EXCEPT !.headers = HeaderSet(h2, csp[1], csp[2])]

DocsPrefix == <<"/", "d", "o", "c", "s">>

RedocPrefix == <<"/", "r", "e", "d", "o", "c">>

\* variant: the documentation routes matched by equality, not by prefix
IsDocsPathExact(path) == path \in {DocsPrefix, RedocPrefix}

\* the condition of lines 185-187
IsDocsPath(path) == StartsWith(path, DocsPrefix) \/ StartsWith(path, RedocPrefix)

\* lines 188-195: a shallow copy of swagger_csp_options with script-src
\* replaced
SwaggerVariant(swagger_sha_key) ==
    DictSet(swagger_csp_options, "script-src",
            <<S("'self'"), SwaggerBundle,
              S("'sha256-") \o swagger_sha_key \o S("'")>>)

\* the csp_options dispatch hands to _add_security_headers
SelectCspOptions(path) ==
    IF IsDocsPath(path) THEN SwaggerVariant(settings.SWAGGER_SHA_KEY)
    ELSE default_csp_options

\* self.default_csp_options and self.swagger_csp_options once dispatch has
\* handled out: the default map is rendered itself (line 198); the
\* documentation map is rendered through a shallow copy whose script-src
\* is a new list (lines 188-195), its other lists being the stored ones
StoredCspOptions(req, out) ==
    IF out.raised \/ ~started
    THEN [default |-> default_csp_options, swagger |-> swagger_csp_options]
    ELSE IF IsDocsPath(req.path)
    THEN [default |-> default_csp_options,
          swagger |->
              [i \in 1..Len(swagger_csp_options) |->
                  IF swagger_csp_options[i][1] = "script-src"
                  THEN swagger_csp_options[i]
                  ELSE MapAfterRender(swagger_csp_options)[i]]]
    ELSE [default |-> MapAfterRender(default_csp_options),
          swagger |-> swagger_csp_options]

AttributeError(name) ==
    [type |-> "AttributeError", http |-> FALSE, status_code |-> 0,
     detail |-> S("'State' object has no attribute '") \o S(name) \o S("'")]

\* variant: the settings are read under a name lifespan never sets
dispatch_misnamed_settings(req, out) ==
    IF out.raised THEN out ELSE Raised(AttributeError("setting"))

\* out: the outcome of await call_next(request)
dispatch(req, out) ==
    IF out.raised THEN out
    ELSE IF ~started
    THEN Raised(AttributeError("settings"))
    ELSE Returned(_add_security_headers(
             out.value, settings.STRICT_TRANSPORT_SECURITY_MAX_AGE,
             SelectCspOptions(req.path),
             settings.CERTIFICATE_TRANSPARENCY_MAX_AGE))

(***************************************************************************)
(* The middleware stack of main.py, innermost first: the router's          *)
(* exception handling, CORSMiddleware, SecurityHeadersMiddleware, and the  *)
(* server error handler around everything.  GZipMiddleware sits between    *)
(* the last two and leaves status, body and these headers of a response    *)
(* under minimum_size as they are.                                         *)
(***************************************************************************)
DetailBody(detail) == [kind |-> "detail", detail |-> detail]

\* an HTTPException (or subclass) becomes a JSON response; any other
\* exception keeps propagating
ExceptionMiddleware(out) ==
    IF out.raised /\ out.exc.http
    THEN Returned(Response(out.exc.status_code, DetailBody(out.exc.detail)))
    ELSE out

\* CORSMiddleware(allow_origins=["*"], allow_credentials=True) on a simple
\* request: nothing without an Origin header; with one, the allow-origin
\* header is "*", or the request's origin when the request carries a cookie
CORSMiddleware(req, out) ==
    IF out.raised \/ req.origin = None THEN out
    ELSE Returned([out.value EXCEPT !.headers =
             HeaderSet(HeaderSet(@, "Access-Control-Allow-Origin",
                                 IF req.cookie THEN req.origin ELSE S("*")),
                       "Access-Control-Allow-Credentials", S("true"))])

\* an exception that reaches the outermost layer is answered with a bare 500
ServerErrorMiddleware(out) ==
    IF out.raised
    THEN Response(500, [kind |-> "text", text |-> S("Internal Server Error")])
    ELSE out.value

\* what call_next(request) gives dispatch for a handler outcome
CallNext(req, handled) == CORSMiddleware(req, ExceptionMiddleware(handled))

(***************************************************************************)
(* Requests and routes.                                                    *)
(***************************************************************************)
HealthPath ==
    <<"/", "a", "p", "i", "/", "v", "1", "/", "h", "e", "a", "l", "t", "h">>

SessionPath ==
    <<"/", "a", "p", "i", "/", "v", "1", "/", "s", "e", "s", "s", "i", "o", "n">>

RootPath == <<"/">>

OpenApiPath ==
    <<"/", "a", "p", "i", "/", "v", "1", "/", "o", "p", "e", "n", "a", "p", "i", ".", "j", "s", "o", "n">>

\* the paths of the requests that reach neither API handler
PlainPaths ==
    {RootPath, DocsPrefix, RedocPrefix, OpenApiPath,
     <<"/", "d", "o", "c", "s", "/", "x">>,
     <<"/", "r", "e", "d", "o", "c", "l", "y">>,
     <<"/", "d", "o", "c">>,
     <<"/", "x", "/", "d", "o", "c", "s">>}

\* main.py routes "/" (redirect) and "/docs"; FastAPI serves redoc_url and
\* openapi_url; every other path is answered by the router's 404
PlainRoute(path) ==
    IF path = RootPath
    THEN Returned(Response(307, [kind |-> "redirect", location |-> DocsPrefix]))
    ELSE IF path \in {DocsPrefix, RedocPrefix}
    THEN Returned(Response(200, [kind |-> "html", page |-> path]))
    ELSE IF path = OpenApiPath
    THEN Returned(Response(200, [kind |-> "openapi"]))
    ELSE Raised(HTTPException(404, S("Not Found")))

Origins == {None, S("https://app.example")}

NoBody == [user_id |-> "", action |-> ""]

\* the requests for a path: with or without an Origin header and a cookie
Requests(path, bodies) ==
    [path : {path}, origin : Origins, cookie : BOOLEAN, body : bodies]

Users == {"u1", "u2"}

Actions == {"login", "logout"}

SessionRequests == [user_id : Users, action : Actions]

(***************************************************************************)
(* What the client observes: the CSP header parsed back.                   *)
(***************************************************************************)
CspHeaderNames ==
    {"Content-Security-Policy", "Content-Security-Policy-Report-Only"}

\* the entries of a CSP value, each split into its name and tokens
CspEntries(value) ==
    LET entries == Split(value, "; ")
    IN  [i \in 1..Len(entries) |-> Split(entries[i], " ")]

IsNonceToken(token) == Len(token) = 3 /\ token[1] = "'nonce-" /\ token[3] = "'"

\* the nonce values in the CSP headers of a header map
NoncesIn(h) ==
    UNION {LET entries == CspEntries(h[n])
           IN  UNION {{entries[i][j][2] :
                          j \in {k \in 2..Len(entries[i]) :
                                    IsNonceToken(entries[i][k])}} :
                      i \in 1..Len(entries)} :
           n \in CspHeaderNames \cap DOMAIN h}

FixedHeaderNames ==
    {"Strict-Transport-Security", "Cross-Origin-Embedder-Policy",
     "Cross-Origin-Opener-Policy", "Cross-Origin-Resource-Policy",
     "Referrer-Policy", "Permissions-Policy", "Cache-Control",
     "X-Frame-Options", "X-Content-Type-Options", "X-XSS-Protection",
     "X-DNS-Prefetch-Control", "X-Download-Options",
     "X-Permitted-Cross-Domain-Policies", "Expect-CT"}

\* the fixed security headers a header map carries
FixedPart(h) == [n \in FixedHeaderNames \cap DOMAIN h |-> h[n]]

(***************************************************************************)
(* State machine.                                                          *)
(***************************************************************************)
CERTIFICATE_TRANSPARENCY_MAX_AGE == 86400

\* STRICT_TRANSPORT_SECURITY_MAX_AGE and SWAGGER_SHA_KEY come from the
\* environment
SettingsValues ==
    [STRICT_TRANSPORT_SECURITY_MAX_AGE : {31536000},
     CERTIFICATE_TRANSPARENCY_MAX_AGE : {CERTIFICATE_TRANSPARENCY_MAX_AGE},
     SWAGGER_SHA_KEY : {S("shaKeyA")}]

NoSettings ==
    [STRICT_TRANSPORT_SECURITY_MAX_AGE |-> 0,
     CERTIFICATE_TRANSPARENCY_MAX_AGE |-> 0,
     SWAGGER_SHA_KEY |-> None]

NoRequest == [path |-> <<>>, origin |-> None, cookie |-> FALSE, body |-> NoBody]

NoResponse == Response(0, [kind |-> "none"])

NoCall == [wrapper |-> "none", out |-> Returned(None)]

Workers == 1..MaxInflight

NoWork == [stage |-> "idle", body |-> NoBody]

\* SecurityHeadersMiddleware.__init__ with a csp_options and a report_only
\* argument from the given sets and a nonce from the given values, before
\* the application has started
InitWith(csp_options_args, report_only_args, nonce_values) ==
    /\ pc = "idle"
    /\ started = FALSE
    /\ settings = NoSettings
    /\ script_nonce \in BOOLEAN
    /\ style_nonce \in BOOLEAN
    /\ report_only \in report_only_args
    /\ \E generated \in nonce_values :
          nonce = InitNonce(script_nonce, style_nonce, generated)
    /\ \E csp_options \in csp_options_args :
          default_csp_options = InitDefaultCspOptions(csp_options)
    /\ swagger_csp_options = SwaggerCspOptions
    /\ table = [u \in Users |-> NoRecord]
    /\ sent_messages = <<>>
    /\ request = NoRequest
    /\ calls = <<>>
    /\ downstream = Returned(NoResponse)
    /\ resp = NoResponse
    /\ sent_fixed = {}
    /\ sent_nonces = {}
    /\ table_before = [u \in Users |-> NoRecord]
    /\ wrapper_call = NoCall
    /\ inflight = [w \in Workers |-> NoWork]
    /\ last_applied = [u \in Users |-> NoRecord]

Init == InitWith({None}, BOOLEAN, NonceValues)

\* the lifespan context manager: settings become available to dispatch
Lifespan ==
    /\ ~started
    /\ started' = TRUE
    /\ settings' \in SettingsValues
    /\ UNCHANGED <<pc, script_nonce, style_nonce, report_only, nonce,
                   default_csp_options, swagger_csp_options, table,
                   sent_messages, request, calls, downstream, resp,
                   sent_fixed, sent_nonces, table_before, wrapper_call,
                   inflight, last_applied>>

\* the handler's outcome for req travels out through the middleware stack
\* to the client
Answer(req, handled) ==
    LET down == CallNext(req, handled)
        final == ServerErrorMiddleware(dispatch(req, down))
        stored == StoredCspOptions(req, down)
    IN  /\ request' = req
        /\ downstream' = down
        /\ resp' = final
        /\ default_csp_options' = stored.default
        /\ swagger_csp_options' = stored.swagger
        /\ sent_fixed' = IF FixedPart(final.headers) = NoHeaders
                         THEN sent_fixed
                         ELSE sent_fixed \cup {FixedPart(final.headers)}
        /\ sent_nonces' = sent_nonces \cup NoncesIn(final.headers)

\* one request served from arrival to response: the handler's outcome
\* handled, the table tbl and the queue content messages it leaves, and
\* the remote calls it made
Serve(req, handled, tbl, messages, remote_calls) ==
    /\ started
    /\ pc = "idle"
    /\ pc' = "responded"
    /\ calls' = remote_calls
    /\ table_before' = table
    /\ table' = tbl
    /\ sent_messages' = messages
    /\ Answer(req, handled)
    /\ UNCHANGED <<started, settings, script_nonce, style_nonce,
                   report_only, nonce, wrapper_call, inflight, last_applied>>

HealthRequest ==
    \E req \in Requests(HealthPath, {NoBody}) :
      \E load, count, queue \in SdkOutcomes :
        LET h == check_health(load, count, queue)
        IN  Serve(req, h.out, table, h.sent, h.calls)

SessionRequest ==
    \E req \in Requests(SessionPath, SessionRequests) :
        \E load, upd \in SdkOutcomes :
            LET h == handle_session(table, req.body, load, upd)
            IN  Serve(req, h.out, h.table, sent_messages, h.calls)

\* a body that fails validation never reaches handle_session
InvalidSessionRequest ==
    \E req \in Requests(SessionPath, {NoBody}) :
        Serve(req,
              Returned(Response(422, DetailBody(S("validation error")))),
              table, sent_messages, <<>>)

PlainRequest ==
    \E path \in PlainPaths : \E req \in Requests(path, {NoBody}) :
        Serve(req, PlainRoute(path), table, sent_messages, <<>>)

\* the server is ready for the next request
Complete ==
    /\ pc = "responded"
    /\ pc' = "idle"
    /\ request' = NoRequest
    /\ calls' = <<>>
    /\ downstream' = Returned(NoResponse)
    /\ resp' = NoResponse
    /\ table_before' = table
    /\ UNCHANGED <<started, settings, script_nonce, style_nonce, report_only,
                   nonce, default_csp_options, swagger_csp_options, table,
                   sent_messages, sent_fixed, sent_nonces, wrapper_call,
                   inflight, last_applied>>

Next ==
    \/ Lifespan
    \/ HealthRequest
    \/ SessionRequest
    \/ InvalidSessionRequest
    \/ PlainRequest
    \/ Complete

Spec == Init /\ [][Next]_vars

(***************************************************************************)
(* The middleware constructed with a csp_options argument: every map of    *)
(* up to MaxDirectives directives with up to MaxTokens tokens each, served *)
(* on the routes that need no remote service.                              *)
(***************************************************************************)
DirectiveNames == {"script-src", "style-src", "img-src"}

TokenValues == {S("'self'")}

TokenLists == UNION {[1..n -> TokenValues] : n \in 0..MaxTokens}

CspMaps ==
    UNION {{m \in [1..n -> DirectiveNames \X TokenLists] :
               \A i, j \in 1..n : m[i][1] = m[j][1] => i = j} :
           n \in 0..MaxDirectives}

InitCsp == InitWith(CspMaps \cup {None}, {FALSE}, {"nonceA"})

NextCsp ==
    \/ Lifespan
    \/ PlainRequest
    \/ Complete

SpecCsp == InitCsp /\ [][NextCsp]_vars

(***************************************************************************)
(* The store and queue wrappers called directly, each with every outcome   *)
(* of the SDK call it makes; wrapper_call holds what the caller got.       *)
(***************************************************************************)
QueueUrls == {None, S("https://sqs.us-east-1.amazonaws.com/1/queue")}

MessageBodies ==
    {<<>>, << <<"user_id", "u1">>, <<"action", "login">> >>}

WrapperFrame ==
    UNCHANGED <<pc, started, settings, script_nonce, style_nonce, report_only,
                nonce, default_csp_options, swagger_csp_options, request,
                calls, downstream, resp, sent_fixed, sent_nonces,
                table_before, inflight, last_applied>>

CallGetTable ==
    /\ \E load \in SdkOutcomes :
          wrapper_call' = [wrapper |-> "get_table", out |-> get_table(load)]
    /\ UNCHANGED <<table, sent_messages>>
    /\ WrapperFrame

CallCheckDbHealth ==
    /\ \E count \in SdkOutcomes :
          wrapper_call' = [wrapper |-> "check_db_health",
                           out |-> check_db_health(count)]
    /\ UNCHANGED <<table, sent_messages>>
    /\ WrapperFrame

CallProcessSession ==
    /\ \E body \in SessionRequests : \E load, upd \in SdkOutcomes :
          LET p == process_session(table, body, load, upd)
          IN  /\ wrapper_call' = [wrapper |-> "process_session", out |-> p.out]
              /\ table' = p.table
    /\ UNCHANGED sent_messages
    /\ WrapperFrame

CallCheckSqsHealth ==
    /\ \E queue \in SdkOutcomes :
          /\ wrapper_call' = [wrapper |-> "check_sqs_health",
                              out |-> check_sqs_health(queue)]
          /\ sent_messages' = get_queue_url(sent_messages, queue)
    /\ UNCHANGED table
    /\ WrapperFrame

CallSendSqsMessage ==
    /\ Len(sent_messages) < MaxSent
    /\ \E queue_url \in QueueUrls : \E message_body \in MessageBodies :
         \E send \in SdkOutcomes :
          LET r == send_sqs_message(sent_messages, queue_url, message_body,
                                    send)
          IN  /\ wrapper_call' = [wrapper |-> "send_sqs_message",
                                  out |-> r.out]
              /\ sent_messages' = r.messages
    /\ UNCHANGED table
    /\ WrapperFrame

InitWrappers == InitWith({None}, {FALSE}, {"nonceA"})

NextWrappers ==
    \/ CallGetTable
    \/ CallCheckDbHealth
    \/ CallProcessSession
    \/ CallCheckSqsHealth
    \/ CallSendSqsMessage

SpecWrappers == InitWrappers /\ [][NextWrappers]_vars

(***************************************************************************)
(* Session requests handled at the same time by up to MaxInflight workers. *)
(* A request's two remote calls are separate steps, so the calls of        *)
(* different requests interleave; update_item itself is one atomic step    *)
(* of the store, and what follows it in process_session is local.  A       *)
(* response is followed up to what call_next gives dispatch, which         *)
(* changes neither its status nor its body.                                *)
(***************************************************************************)
ConcurrentRequests ==
    {r \in Requests(SessionPath, SessionRequests) :
        r.origin = None /\ ~r.cookie}

ConcurrentFrame ==
    UNCHANGED <<pc, started, settings, script_nonce, style_nonce, report_only,
                nonce, default_csp_options, swagger_csp_options,
                sent_messages, resp, sent_fixed, sent_nonces, table_before,
                wrapper_call>>

\* process_session up to get_table: a failure is answered at once
BeginSession(w) ==
    /\ inflight[w].stage = "idle"
    /\ \E req \in ConcurrentRequests : \E load \in SdkOutcomes :
          LET h == handle_session(table, req.body, load, "ok")
          IN  IF get_table(load).raised
              THEN /\ request' = req
                   /\ calls' = h.calls
                   /\ downstream' = CallNext(req, h.out)
                   /\ UNCHANGED inflight
              ELSE /\ inflight' = [inflight EXCEPT
                                      ![w] = [stage |-> "table",
                                              body |-> req.body]]
                   /\ UNCHANGED <<request, calls, downstream>>
    /\ UNCHANGED <<table, last_applied>>
    /\ ConcurrentFrame

\* process_session from update_item on, and the handler's answer
UpdateSession(w) ==
    /\ inflight[w].stage = "table"
    /\ \E req \in ConcurrentRequests : \E upd \in SdkOutcomes :
          LET h == handle_session(table, req.body, "ok", upd)
          IN  /\ req.body = inflight[w].body
              /\ table' = h.table
              /\ last_applied' =
                     IF upd = "ok"
                     THEN [last_applied EXCEPT
                              ![req.body.user_id] = req.body.action]
                     ELSE last_applied
              /\ request' = req
              /\ calls' = h.calls
              /\ downstream' = CallNext(req, h.out)
    /\ inflight' = [inflight EXCEPT ![w] = NoWork]
    /\ ConcurrentFrame

InitConcurrent == InitWith({None}, {FALSE}, {"nonceA"})

NextConcurrent ==
    \/ \E w \in Workers : BeginSession(w)
    \/ \E w \in Workers : UpdateSession(w)

SpecConcurrent == InitConcurrent /\ [][NextConcurrent]_vars

(***************************************************************************)
(* Properties.                                                             *)
(***************************************************************************)
ACAO == "Access-Control-Allow-Origin"

HasCsp(r) == CspHeaderNames \cap DOMAIN r.headers # {}

\* the value of the CSP header a response carries
CspValue(r) == r.headers[CHOOSE n \in CspHeaderNames : n \in DOMAIN r.headers]

\* the path is /docs or /redoc, or continues one of them
IsDocumentationPath(path) ==
    \E k \in 0..Len(path) : SubSeq(path, 1, k) \in {DocsPrefix, RedocPrefix}

\* the tokens of a directive as the client must see them: the configured
\* ones, then the nonce token where the instance injects one
WithNonce(name, tokens) ==
    IF \/ name = "script-src" /\ script_nonce
       \/ name = "style-src" /\ style_nonce
    THEN Append(tokens, <<"'nonce-", nonce[1], "'">>)
    ELSE tokens

\* a directive written as its name, a space, and its tokens one space apart
Written(name, tokens) == S(name) \o S(" ") \o Join(tokens, S(" "))

\* the entries of a map, in its order, with the nonce tokens
EntriesWithNonce(map) ==
    [i \in 1..Len(map) |-> Written(map[i][1], WithNonce(map[i][1], map[i][2]))]

\* the entries of a map, in its order, with its own tokens only
EntriesAsConfigured(map) ==
    [i \in 1..Len(map) |-> Written(map[i][1], map[i][2])]

\* the documentation map: the fixed one with script-src rebuilt around
\* the configured SWAGGER_SHA_KEY
DocumentationMap ==
    [i \in 1..Len(SwaggerCspOptions) |->
        IF SwaggerCspOptions[i][1] = "script-src"
        THEN <<"script-src",
               <<S("'self'"), SwaggerBundle,
                 <<"'sha256-">> \o settings.SWAGGER_SHA_KEY \o <<"'">> >> >>
        ELSE SwaggerCspOptions[i]]

\* C1: every response, whatever its route and status (also the 500 sent
\* for an unhandled error), carries all fixed security headers and a CSP
\* header, and the fixed headers have one value over the whole process.
C1_EveryResponseCarriesSecurityHeaders ==
    pc = "responded" =>
        /\ FixedHeaderNames \subseteq DOMAIN resp.headers
        /\ HasCsp(resp)
        /\ sent_fixed = {FixedPart(resp.headers)}

\* C2: the CSP variant follows from the request path alone: a documentation
\* path gets the documentation map with script-src rebuilt to 'self', the
\* bundle host and the configured hash; any other path gets the default
\* map; the header is entirely one or entirely the other.
C2_CspVariantFollowsPath ==
    pc = "responded" /\ HasCsp(resp) =>
        Split(CspValue(resp), "; ") =
            IF IsDocumentationPath(request.path)
            THEN EntriesWithNonce(DocumentationMap)
            ELSE EntriesWithNonce(default_csp_options)

C2_Witness ==
    /\ pc = "responded"
    /\ request.path = <<"/", "r", "e", "d", "o", "c", "l", "y">>
    /\ HasCsp(resp)
    /\ Split(CspValue(resp), "; ") = EntriesWithNonce(DocumentationMap)

\* C3 as stated: the rendered header has one entry per directive of the
\* map, in the map's order, each the directive name followed by the map's
\* tokens for it, single spaces between, entries joined with "; ".
C3_EntriesAreTheMapsTokens ==
    pc = "responded" /\ HasCsp(resp) =>
        Split(CspValue(resp), "; ") =
            EntriesAsConfigured(SelectCspOptions(request.path))

\* C3 amended: as above, except that the script-src entry ends with the
\* nonce token when script_nonce is set, and the style-src entry when
\* style_nonce is set; every directive still appears exactly once, in order.
C3_EntriesAreTheMapsTokensAndNonce ==
    pc = "responded" /\ HasCsp(resp) =>
        LET map == SelectCspOptions(request.path)
            sent == Split(CspValue(resp), "; ")
        IN  /\ sent = EntriesWithNonce(map)
            /\ \A i \in 1..Len(map) :
                  Cardinality({j \in 1..Len(sent) :
                                  Head(sent[j]) = map[i][1]}) = 1

C3_Witness ==
    /\ pc = "responded"
    /\ HasCsp(resp)
    /\ ~IsDocumentationPath(request.path)
    /\ default_csp_options # DefaultCspOptions
    /\ Len(default_csp_options) >= 2
    /\ \E i \in 1..Len(default_csp_options) : default_csp_options[i][2] = <<>>
    /\ Split(CspValue(resp), "; ") = EntriesWithNonce(default_csp_options)

\* C4: with script_nonce set, the script-src entry of every CSP sent, the
\* default and the documentation one, holds exactly one nonce token, and
\* its value is the one generated at construction, the same in every
\* response of the instance.
C4_OneStableScriptNonce ==
    script_nonce /\ pc = "responded" /\ HasCsp(resp) =>
        LET entries == CspEntries(CspValue(resp))
            scripts == {i \in 1..Len(entries) : entries[i][1] = S("script-src")}
        IN  /\ scripts # {}
            /\ \A i \in scripts :
                  Cardinality({j \in 2..Len(entries[i]) :
                                  IsNonceToken(entries[i][j])}) = 1
            /\ sent_nonces = {nonce[1]}
            /\ nonce[1] \in NonceValues

C4_Witness ==
    /\ script_nonce
    /\ pc = "responded"
    /\ HasCsp(resp)
    /\ IsDocumentationPath(request.path)
    /\ \E u \in Users : table[u] # NoRecord
    /\ sent_nonces = {nonce[1]}

HealthAnswered == pc = "responded" /\ request.path = HealthPath

\* the table access, the store check and the queue check were all made
\* and all succeeded
AllChecksSucceeded ==
    /\ {calls[i].call : i \in 1..Len(calls)} =
           {"Table.load", "Table.item_count", "get_queue_url"}
    /\ \A i \in 1..Len(calls) : calls[i].outcome = "ok"

\* C5: the health endpoint answers 200 exactly when the store check and
\* the queue check succeed, then with both labelled healthy; a status map
\* comes with 503 exactly when it labels some dependency unhealthy.
C5_HealthStatusMatchesChecks ==
    HealthAnswered =>
        /\ resp.status_code = 200 <=> AllChecksSucceeded
        /\ resp.status_code = 200 =>
               resp.body = HealthBody("healthy", "healthy")
        /\ resp.body.kind = "health" =>
               (resp.status_code = 503 <=>
                    "unhealthy" \in {resp.body.dynamodb, resp.body.sqs})

C5_Witness ==
    /\ HealthAnswered
    /\ AllChecksSucceeded
    /\ resp.status_code = 200
    /\ resp.body = HealthBody("healthy", "healthy")

\* C6: when a dependency check of the health endpoint fails with a service
\* error, the endpoint still answers 503 with the status map, the failing
\* dependency labelled unhealthy, and the queue check is still performed.
C6_FailedCheckIsReportedUnhealthy ==
    HealthAnswered /\ (\E i \in 1..Len(calls) : calls[i].outcome = "ClientError")
        =>
        /\ resp.status_code = 503
        /\ resp.body.kind = "health"
        /\ \E i \in 1..Len(calls) : calls[i].call = "get_queue_url"
        /\ \A i \in 1..Len(calls) :
              calls[i].outcome = "ClientError" =>
                  IF calls[i].call = "get_queue_url"
                  THEN resp.body.sqs = "unhealthy"
                  ELSE resp.body.dynamodb = "unhealthy"

SessionAnswered ==
    /\ pc = "responded"
    /\ request.path = SessionPath
    /\ request.body \in SessionRequests

StoreCallsSucceeded ==
    /\ Len(calls) = 2
    /\ \A i \in 1..Len(calls) : calls[i].outcome = "ok"

\* C7: a valid session request whose store calls succeed is answered 201
\* with the request's user_id and, as last_action, the request's action,
\* which is what the store holds for that user after the update.
C7_SessionEchoesTheUpdate ==
    SessionAnswered /\ StoreCallsSucceeded =>
        /\ resp.status_code = 201
        /\ resp.body = [kind |-> "session",
                        user_id |-> request.body.user_id,
                        last_action |-> request.body.action]
        /\ table[request.body.user_id] = request.body.action

C7_Witness ==
    /\ SessionAnswered
    /\ StoreCallsSucceeded
    /\ resp.status_code = 201
    /\ resp.body.last_action = "logout"
    /\ \A u \in Users : table[u] # NoRecord

\* C8: every failure of a session request becomes an HTTP error response:
\* 503 with the error's detail when the table cannot be accessed, 500 with
\* the error's detail when the update is rejected, 500 with the generic
\* message and the error text for anything else; nothing escapes as an
\* unhandled error.
C8_SessionFailuresAreMapped ==
    SessionAnswered =>
        /\ resp.body.kind \in {"session", "detail"}
        /\ resp.status_code # 201 => ~StoreCallsSucceeded
        /\ calls[1].outcome = "ClientError" =>
               /\ resp.status_code = 503
               /\ resp.body =
                      DetailBody(<<"Failed to access the DynamoDB table.">>)
        /\ Len(calls) = 2 /\ calls[2].outcome = "ClientError" =>
               /\ resp.status_code = 500
               /\ resp.body =
                      DetailBody(<<"Failed to update session in DynamoDB.">>)
        /\ calls[Len(calls)].outcome = "BotoCoreError" =>
               /\ resp.status_code = 500
               /\ resp.body =
                      DetailBody(<<"An unexpected error occurred: ">>
                                 \o SdkError("BotoCoreError").detail)

C8_Witness ==
    /\ SessionAnswered
    /\ calls = <<Call("Table.load", "ClientError")>>
    /\ resp.status_code = 503
    /\ resp.body.kind = "detail"

\* C9: once the downstream handler has produced a response, the client
\* gets that response, status and body unchanged, its headers kept, with
\* the security headers added; the middleware raises nothing of its own.
C9_DispatchOnlyDecorates ==
    pc = "responded" /\ ~downstream.raised =>
        /\ resp.status_code = downstream.value.status_code
        /\ resp.body = downstream.value.body
        /\ \A n \in DOMAIN downstream.value.headers :
              /\ n \in DOMAIN resp.headers
              /\ resp.headers[n] = downstream.value.headers[n]
        /\ FixedHeaderNames \subseteq DOMAIN resp.headers
        /\ HasCsp(resp)

C9_Witness ==
    /\ pc = "responded"
    /\ ~downstream.raised
    /\ downstream.value.status_code = 503
    /\ resp.status_code = 503
    /\ DOMAIN downstream.value.headers # {}
    /\ HasCsp(resp)

\* C10: the middleware sets Access-Control-Allow-Origin to "*" only when
\* the response from downstream lacks it; a value set by the CORS
\* middleware reaches the client unchanged.
C10_AllowOriginKept ==
    pc = "responded" /\ ~downstream.raised =>
        /\ ACAO \in DOMAIN resp.headers
        /\ resp.headers[ACAO] =
               IF ACAO \in DOMAIN downstream.value.headers
               THEN downstream.value.headers[ACAO]
               ELSE <<"*">>

C10_Witness ==
    /\ pc = "responded"
    /\ ~downstream.raised
    /\ ACAO \in DOMAIN downstream.value.headers
    /\ downstream.value.headers[ACAO] = <<"https://app.example">>
    /\ resp.headers[ACAO] = <<"https://app.example">>

\* C11: every response carries exactly one of the two CSP header names,
\* Content-Security-Policy when report_only is false and
\* Content-Security-Policy-Report-Only when it is true, never both and
\* never the other one.
C11_ExactlyTheSelectedCspHeader ==
    pc = "responded" =>
        CspHeaderNames \cap DOMAIN resp.headers =
            {IF report_only THEN "Content-Security-Policy-Report-Only"
             ELSE "Content-Security-Policy"}

\* C12: after any sequence of requests, documentation or not, with nonce
\* injection on or off, the stored default and documentation maps equal
\* their construction-time values, and each response is rendered from
\* those values: no nonce token and no rebuilt script-src stays behind.
C12_BaseConfigurationUnchanged ==
    /\ default_csp_options = DefaultCspOptions
    /\ swagger_csp_options = SwaggerCspOptions
    /\ pc = "responded" /\ HasCsp(resp) =>
          Split(CspValue(resp), "; ") =
              EntriesWithNonce(IF IsDocumentationPath(request.path)
                               THEN DocumentationMap
                               ELSE DefaultCspOptions)

C12_Witness ==
    /\ pc = "responded"
    /\ script_nonce
    /\ style_nonce
    /\ IsDocumentationPath(request.path)
    /\ HasCsp(resp)
    /\ sent_nonces # {}
    /\ \E u \in Users : table[u] # NoRecord
    /\ swagger_csp_options = SwaggerCspOptions

\* C13: every failure of an SDK call made by a store or queue wrapper
\* reaches the wrapper's caller as a connection error or an operation
\* error of the application; no error of the SDK itself gets out.
C13_WrapperFailuresAreDomainErrors ==
    wrapper_call.out.raised =>
        wrapper_call.out.exc.type \in
            {"DatabaseConnectionError", "SQSConnectionError",
             "DatabaseOperationError"}

\* C14: when a session request is answered 503 or 500, the table is as it
\* was when the request arrived: the user's record has the action it had,
\* and no record was created.
C14_FailedSessionLeavesStore ==
    SessionAnswered /\ resp.status_code \in {500, 503} =>
        table = table_before

C14_Witness ==
    /\ SessionAnswered
    /\ resp.status_code = 500
    /\ Len(calls) = 2
    /\ calls[2] = Call("update_item", "ClientError")
    /\ table_before[request.body.user_id] \notin {NoRecord, request.body.action}
    /\ \E u \in Users : table_before[u] = NoRecord
    /\ table = table_before

C16_LastWriterWins ==
    /\ table = last_applied
    /\ request # NoRequest /\ downstream.value.status_code = 201 =>
          /\ downstream.value.body =
                 SessionResponse(request.body.user_id, request.body.action)
          /\ table[request.body.user_id] # NoRecord

C16_Witness ==
    /\ downstream.value.status_code = 201
    /\ request.body = [user_id |-> "u1", action |-> "logout"]
    /\ table["u1"] = "logout"
    /\ table["u2"] = "login"
    /\ \E w \in Workers :
          /\ inflight[w].stage = "table"
          /\ inflight[w].body = [user_id |-> "u1", action |-> "login"]

====
